---------------------------- MODULE Spec2Model ----------------------------
(***************************************************************************)
(* A model of the idasen desk library: the locator of src/src/bluetooth.rs *)
(* (find_desk_adapter) and the Desk of src/src/desk.rs (from_peripheral,   *)
(* get_height, stop, move_direction, move_to_target), driven by one client *)
(* task, together with the desk on the other side of the link.             *)
(*                                                                         *)
(* Heights are integers in units of 1/10000 m (0.1 mm), the unit of the    *)
(* desk's raw sample: 0.62 m is 6200, 3 mm is 30, 10 mm is 100.  The code  *)
(* computes in f32/f64; the model computes the same expressions exactly.   *)
(* bytes_to_meters_f32 is the decoder in f32 arithmetic, rounding          *)
(* included; SpecDecode applies it to every pair of bytes and relates it   *)
(* to the integer decoder bytes_to_meters the other actions use.           *)
(*                                                                         *)
(* pc is the position of the client task.  Every action is the code        *)
(* between two suspension points (.await) of that task; the desk's own     *)
(* steps (DeskTick, DeskObstacle, DeskIdle) interleave with them.          *)
(***************************************************************************)
EXTENDS Integers, Sequences, FiniteSets

\* ---------------------------------------------------------------- constants

\* desk.rs:13-15, the three characteristic uuids
UUID_HEIGHT == "99fa0021"
UUID_COMMAND == "99fa0002"
UUID_REFERENCE_INPUT == "99fa0031"

\* desk.rs:22-23, in units of 1/10000 m
MAX_HEIGHT == 12700
MIN_HEIGHT == 6200

\* bluetooth.rs:9
RETRY_COUNT == 3

\* desk.rs:108-109 and 259-263, the opcodes
COMMAND_STOP == <<255, 0>>
COMMAND_REF_INPUT == <<1, 128>>
COMMAND_UP == <<71, 0>>
COMMAND_DOWN == <<70, 0>>

\* ------------------------------------------------------------------- bounds

\* The desk's raw position is a multiple of GridStep between 0 and
\* GridStep * MaxPos.
GridStep == 20
MaxPos == 6

RawPositions == {GridStep * k : k \in 0..MaxPos}

\* The targets a client asks for: just below, at and just above each limit,
\* and one inside the window the desk moves in.
Targets ==
    {MIN_HEIGHT - 1, MIN_HEIGHT, MIN_HEIGHT + 3 * GridStep, MAX_HEIGHT,
     MAX_HEIGHT + 1}

\* Milliseconds the first sample of a call may see since line 165, and a later
\* sample since line 231: a later one follows the 50 ms sleep of line 237.
ElapsedFirst == {0, 25, 50}
ElapsedLater == {50, 75}

AllCharacteristics == {UUID_HEIGHT, UUID_COMMAND, UUID_REFERENCE_INPUT}

None == "none"

VARIABLES
    pc,                 \* position of the client task
    connect,            \* find_desk_adapter's connect argument
    attempt,            \* the loop index i of the connection loop
    connectCalls,       \* connection attempts made
    found,              \* what find_desk returned
    connected,          \* a connection attempt succeeded
    discoverCalls,      \* calls of discover_services
    locateResult,       \* what find_desk_adapter returned
    deviceChars,        \* the characteristics the device has
    discovered,         \* the characteristics the peripheral handle knows
    characteristics_map,\* Desk.characteristics_map (its keys)
    constructResult,    \* what from_peripheral returned
    physHeight,         \* the desk's raw position
    motion,             \* what the desk's motor is doing
    call,               \* the public operation in progress or last returned
    result,             \* its result
    target,             \* move_to_target's argument
    previous_height,
    will_move_up,
    desk_height,        \* the shared Arc<Mutex<f32>>
    current_height,
    firstIteration,
    final_height,       \* the height read at line 218
    listener,           \* the notification listener of this call
    pressureApplied,    \* this iteration called the stop() of line 207
    movesWritten,       \* move commands this iteration has written
    guard,              \* who holds the guard of the shared value's mutex
    lastNotified,       \* last notification the desk sent during this call
    reads,              \* transport reads attempted in this call
    wire,               \* <<uuid, bytes>> writes attempted in this call
    lastCommand,        \* last bytes written to the command characteristic
    ioFailed,           \* a transport operation of this call failed
    stopSite,           \* who called stop()
    cmdWrite,           \* stop()'s write to the command characteristic
    refWrite,           \* stop()'s write to the reference input
    stopResult,         \* what stop() returned
    sample,             \* the raw bytes handed to bytes_to_meters
    decoded             \* the f32 it returned, in units of 2^-24 m

locatorVars == <<connect, found, attempt, connectCalls, connected,
                 discoverCalls, locateResult, deviceChars, discovered>>
constructVars == <<characteristics_map, constructResult>>
deskVars == <<physHeight, motion>>
moveVars == <<target, previous_height, will_move_up, desk_height,
              current_height, firstIteration, final_height, listener,
              pressureApplied, movesWritten, guard>>
ioVars == <<reads, wire, lastCommand, ioFailed>>
stopVars == <<stopSite, cmdWrite, refWrite, stopResult>>
decodeVars == <<sample, decoded>>

vars == <<pc, locatorVars, constructVars, deskVars, call, result, moveVars,
          lastNotified, ioVars, stopVars, decodeVars>>

\* ------------------------------------------------------------ pure helpers

Abs(x) == IF x < 0 THEN -x ELSE x

\* The desk's side of the wire: the raw position as two little-endian bytes.
EncodeRaw(raw) == <<raw % 256, raw \div 256>>

\* desk.rs:356-362
bytes_to_meters(raw) ==
    LET high_byte == raw[2]
        low_byte == raw[1]
        number == (high_byte * 256) + low_byte
    IN  number + MIN_HEIGHT

\* A u8.
Byte == 0..255

RECURSIVE Pow2(_)
Pow2(n) == IF n = 0 THEN 1 ELSE 2 * Pow2(n - 1)

\* The binary long division of n by d, one bit a step, until the quotient q
\* has the 24 bits of an f32 significand (q >= 2^23):
\* n / d = (q + r / d) / 2^k.
RECURSIVE F32Significand(_, _, _, _)
F32Significand(q, r, k, d) ==
    IF q >= 8388608 THEN <<q, r, k>>
    ELSE F32Significand(2 * q + ((2 * r) \div d), (2 * r) % d, k + 1, d)

\* The f32 nearest to n / d (round to nearest, ties to even), for n >= 0,
\* d > 0 and n / d < 2^23, as <<m, k>>: the value m / 2^k.  It is what an f32
\* division of two exactly represented operands returns, and what the
\* compiler makes of a decimal literal.
F32Quot(n, d) ==
    IF n = 0 THEN <<0, 0>>
    ELSE LET s == F32Significand(n \div d, n % d, 0, d)
             q == s[1]
             r == s[2]
             up == 2 * r > d \/ (2 * r = d /\ q % 2 = 1)
         IN  <<IF up THEN q + 1 ELSE q, s[3]>>

\* An f32 <<m, k>> below 8 cut at 2^-24: <<hi, lo, w>> is the value
\* hi / 2^24 + lo / 2^(24 + w), with lo < 2^w.
F32Split(x) ==
    LET m == x[1]
        k == x[2]
    IN  IF k <= 24 THEN <<m * Pow2(24 - k), 0, 0>>
        ELSE <<m \div Pow2(k - 24), m % Pow2(k - 24), k - 24>>

\* The f32 sum of two f32 values a and b with 1/2 <= a + b < 8, in units of
\* 2^-24: the exact sum rounded to the 24 bits of its binade (round to
\* nearest, ties to even); the binades start at 2^24, 2^25 and 2^26 units.
F32Add(a, b) ==
    LET sa == F32Split(a)
        sb == F32Split(b)
        w == IF sa[3] > sb[3] THEN sa[3] ELSE sb[3]
        lo == sa[2] * Pow2(w - sa[3]) + sb[2] * Pow2(w - sb[3])
        whole == sa[1] + sb[1] + (lo \div Pow2(w))
        frac == lo % Pow2(w)
        ulp == IF whole < 16777216 THEN 1
               ELSE IF whole < 33554432 THEN 2
               ELSE IF whole < 67108864 THEN 4
               ELSE 8
        units == whole \div ulp
        rest == 2 * ((whole % ulp) * Pow2(w) + frac)
        half == ulp * Pow2(w)
        up == rest > half \/ (rest = half /\ units % 2 = 1)
    IN  (IF up THEN units + 1 ELSE units) * ulp

\* desk.rs:23, the f32 the literal 0.62 denotes.
MIN_HEIGHT_F32 == F32Quot(62, 100)

\* The decoder with the two bytes in the other order.
bytes_to_meters_f32_BigEndian(raw) ==
    LET high_byte == raw[1]
        low_byte == raw[2]
        number == (high_byte * 256) + low_byte
    IN  F32Add(F32Quot(number, 10000), MIN_HEIGHT_F32)

\* desk.rs:356-362 in the f32 arithmetic of the code: the i32 number (at most
\* 65535, exact as an f32) divided by 10000.0, then MIN_HEIGHT added, each
\* operation rounded.  The result is in units of 2^-24 m.
bytes_to_meters_f32(raw) ==
    LET high_byte == raw[2]
        low_byte == raw[1]
        number == (high_byte * 256) + low_byte
    IN  F32Add(F32Quot(number, 10000), MIN_HEIGHT_F32)

\* A height in units of 2^-24 m to the nearest 1/10000 m:
\* v * 10000 / 2^24 = v * 625 / 2^20, computed in two parts.
TenThousandths(v) ==
    LET hi == v \div 1048576
        lo == v % 1048576
    IN  hi * 625 + ((lo * 625 + 524288) \div 1048576)

\* desk.rs:339-347: the map's keys are the uuids of the characteristics.
get_character_map(characters) == {x \in AllCharacteristics : x \in characters}


\* A height variable that holds no height yet.
NoHeight == 0 - 1

\* ---------------------------------------------------------------- Init

Init ==
    /\ pc = "fda_start"
    /\ connect \in BOOLEAN
    /\ found = None
    /\ attempt = 0
    /\ connectCalls = 0
    /\ connected = FALSE
    /\ discoverCalls = 0
    /\ locateResult = None
    /\ deviceChars \in SUBSET AllCharacteristics
    /\ discovered = {}
    /\ characteristics_map = {}
    /\ constructResult = None
    /\ physHeight \in RawPositions
    /\ motion = "stopped"
    /\ call = None
    /\ result = None
    /\ target = NoHeight
    /\ previous_height = NoHeight
    /\ will_move_up = FALSE
    /\ desk_height = NoHeight
    /\ current_height = NoHeight
    /\ firstIteration = TRUE
    /\ final_height = NoHeight
    /\ listener = None
    /\ pressureApplied = FALSE
    /\ movesWritten = 0
    /\ guard = None
    /\ lastNotified = NoHeight
    /\ reads = 0
    /\ wire = {}
    /\ lastCommand = <<>>
    /\ ioFailed = FALSE
    /\ stopSite = None
    /\ cmdWrite = "idle"
    /\ refWrite = "idle"
    /\ stopResult = None
    /\ sample = <<>>
    /\ decoded = NoHeight

\* ------------------------------------------ bluetooth.rs: find_desk_adapter

\* bluetooth.rs:68, find_first_adapter(..).await.unwrap(): the first adapter
\* of the host, a panic when there is none.
FdaFindFirstAdapter ==
    /\ pc = "fda_start"
    /\ \E adapter \in BOOLEAN :
           pc' = IF adapter THEN "fda_scan" ELSE "panicked"
    /\ UNCHANGED <<locatorVars, constructVars, deskVars, call, result,
                   moveVars, lastNotified, ioVars, stopVars>>
    /\ UNCHANGED decodeVars

\* bluetooth.rs:73, start_scan(..).await.unwrap()
FdaStartScan ==
    /\ pc = "fda_scan"
    /\ \E ok \in BOOLEAN :
           pc' = IF ok THEN "fda_settle" ELSE "panicked"
    /\ UNCHANGED <<locatorVars, constructVars, deskVars, call, result,
                   moveVars, lastNotified, ioVars, stopVars>>
    /\ UNCHANGED decodeVars

\* bluetooth.rs:74, the 3 s settle window
FdaSettle ==
    /\ pc = "fda_settle"
    /\ pc' = "fda_find_desk"
    /\ UNCHANGED <<locatorVars, constructVars, deskVars, call, result,
                   moveVars, lastNotified, ioVars, stopVars>>
    /\ UNCHANGED decodeVars

\* bluetooth.rs:76-80 with find_desk (40-51): peripherals() may fail ("err",
\* returned by ?), hold no peripheral of the address ("absent": Ok(None),
\* which .unwrap() turns into a panic) or hold it ("found").
FdaFindDesk ==
    /\ pc = "fda_find_desk"
    /\ \E outcome \in {"err", "absent", "found"} :
           /\ found' = outcome
           /\ CASE outcome = "err" ->
                        /\ pc' = "fda_returned"
                        /\ locateResult' = "Err"
                 [] outcome = "absent" ->
                        /\ pc' = "panicked"
                        /\ UNCHANGED locateResult
                 [] OTHER ->
                        IF ~connect
                        THEN /\ pc' = "fda_returned"
                             /\ locateResult' = "Ok"
                        ELSE /\ pc' = "fda_connect"
                             /\ UNCHANGED locateResult
    /\ UNCHANGED <<connect, attempt, connectCalls, connected, discoverCalls,
                   deviceChars, discovered>>
    /\ UNCHANGED <<constructVars, deskVars, call, result, moveVars,
                   lastNotified, ioVars, stopVars>>
    /\ UNCHANGED decodeVars

\* The loop over the inclusive range 0..=RETRY_COUNT.
InRetryRange_Inclusive(i) == i <= RETRY_COUNT

\* bluetooth.rs:84: `for i in 0..RETRY_COUNT`, the indices the loop runs for.
InRetryRange(i) == i < RETRY_COUNT

\* bluetooth.rs:88: the test the Err arm makes before it gives up.
IsLastAttempt(i) == i = RETRY_COUNT

\* bluetooth.rs:84-91: one connect() of the loop `for i in 0..RETRY_COUNT`.
\* Ok breaks out of the loop; Err returns the error when IsLastAttempt(i)
\* and goes on to the delay otherwise.
FdaConnect ==
    /\ pc = "fda_connect"
    /\ InRetryRange(attempt)
    /\ connectCalls' = connectCalls + 1
    /\ \E ok \in BOOLEAN :
           IF ok
           THEN /\ connected' = TRUE
                /\ pc' = "fda_discover"
                /\ UNCHANGED locateResult
           ELSE /\ UNCHANGED connected
                /\ IF IsLastAttempt(attempt)
                   THEN /\ pc' = "fda_returned"
                        /\ locateResult' = "Err"
                   ELSE /\ pc' = "fda_backoff"
                        /\ UNCHANGED locateResult
    /\ UNCHANGED <<connect, found, attempt, discoverCalls, deviceChars,
                   discovered>>
    /\ UNCHANGED <<constructVars, deskVars, call, result, moveVars,
                   lastNotified, ioVars, stopVars>>
    /\ UNCHANGED decodeVars

\* bluetooth.rs:94 and the loop header of line 84: the 50 ms delay, then the
\* next i, or the end of the range and so of the loop.
FdaBackoff ==
    /\ pc = "fda_backoff"
    /\ attempt' = attempt + 1
    /\ pc' = IF InRetryRange(attempt + 1) THEN "fda_connect"
             ELSE "fda_discover"
    /\ UNCHANGED <<connect, found, connectCalls, connected, discoverCalls,
                   locateResult, deviceChars, discovered>>
    /\ UNCHANGED <<constructVars, deskVars, call, result, moveVars,
                   lastNotified, ioVars, stopVars>>
    /\ UNCHANGED decodeVars

\* bluetooth.rs:99-101: discover_services().await?, then Ok(desk_peripheral).
\* A discovery that succeeds fills the handle's characteristics.
FdaDiscover ==
    /\ pc = "fda_discover"
    /\ discoverCalls' = discoverCalls + 1
    /\ \E ok \in BOOLEAN :
           IF ok
           THEN /\ discovered' = deviceChars
                /\ locateResult' = "Ok"
           ELSE /\ UNCHANGED discovered
                /\ locateResult' = "Err"
    /\ pc' = "fda_returned"
    /\ UNCHANGED <<connect, found, attempt, connectCalls, connected,
                   deviceChars>>
    /\ UNCHANGED <<constructVars, deskVars, call, result, moveVars,
                   lastNotified, ioVars, stopVars>>
    /\ UNCHANGED decodeVars

Locate ==
    \/ FdaFindFirstAdapter
    \/ FdaStartScan
    \/ FdaSettle
    \/ FdaFindDesk
    \/ FdaConnect
    \/ FdaBackoff
    \/ FdaDiscover


\* ------------------------------------------------ desk.rs: from_peripheral

\* desk.rs:58-65 up to the await of subscribe: properties().await.unwrap()
\* .unwrap() and local_name.unwrap() panic when the peripheral has no
\* properties or no name; get(UUID_HEIGHT).unwrap() panics when the map built
\* from the handle's characteristics has no height entry.  Nothing looks up
\* UUID_COMMAND or UUID_REFERENCE_INPUT here.  The loop index and the counts
\* of the find_desk_adapter call end with that call.
FpProperties ==
    /\ pc = "fda_returned"
    /\ locateResult = "Ok"
    /\ attempt' = 0
    /\ connectCalls' = 0
    /\ discoverCalls' = 0
    /\ \E named \in BOOLEAN :
           LET desk_characteristics_map == get_character_map(discovered)
           IN  IF named /\ UUID_HEIGHT \in desk_characteristics_map
               THEN /\ pc' = "fp_subscribe"
                    /\ characteristics_map' = desk_characteristics_map
               ELSE /\ pc' = "panicked"
                    /\ UNCHANGED characteristics_map
    /\ UNCHANGED <<connect, found, connected, locateResult, deviceChars,
                   discovered>>
    /\ UNCHANGED <<constructResult, deskVars, call, result, moveVars,
                   lastNotified, ioVars, stopVars>>
    /\ UNCHANGED decodeVars

\* desk.rs:64-84: subscribe; Err(CannotSubscribePosition) or the Desk.
FpSubscribe ==
    /\ pc = "fp_subscribe"
    /\ \E ok \in BOOLEAN :
           IF ok
           THEN /\ constructResult' = "Ok"
                /\ pc' = "ready"
           ELSE /\ constructResult' = "CannotSubscribePosition"
                /\ pc' = "fp_returned"
    /\ UNCHANGED <<locatorVars, characteristics_map, deskVars, call, result,
                   moveVars, lastNotified, ioVars, stopVars>>
    /\ UNCHANGED decodeVars

Construct ==
    \/ FpProperties
    \/ FpSubscribe

\* ------------------------------------------------------------- the desk

\* The positions of a move_to_target call in progress.
InMove == call = "move_to_target" /\ pc \notin {"ready", "panicked"}

\* desk.rs:288: what the listener decodes from the notification the desk
\* sends at raw position raw.
Notified(raw) == bytes_to_meters(EncodeRaw(raw))

\* The call of line 167 with the .await it lacks: the listener is spawned.
MonitorStarted_Awaited == "running"

\* desk.rs:167: `let _ = self.monitor_height_notification_stream(..)` calls
\* an async fn and drops the future it returns without awaiting it.  A future
\* runs only when it is polled, so nothing of lines 278-291 runs: the stream
\* is not requested and no task is spawned ("unpolled").  An awaited call
\* would have left a spawned listener ("running").
MonitorStarted == "unpolled"

\* desk.rs:286-291, the listener's loop body: a notification is decoded and
\* stored in the shared value, under a guard that is a temporary of the
\* statement of line 289.  Only a spawned listener runs it; the shared value
\* keeps what it holds otherwise.
ListenerStore(height) == IF listener = "running" THEN height ELSE desk_height

\* The desk moves one step the way its last accepted command says, and
\* notifies its new height (the peripheral is subscribed, desk.rs:64-66).
DeskTick ==
    /\ motion \in {"up", "down"}
    /\ LET next == IF motion = "up" THEN physHeight + GridStep
                   ELSE physHeight - GridStep
       IN  /\ next \in RawPositions
           /\ physHeight' = next
           /\ lastNotified' = IF InMove THEN Notified(next) ELSE lastNotified
           /\ desk_height' = ListenerStore(Notified(next))
    /\ UNCHANGED <<pc, locatorVars, constructVars, motion, call, result,
                   target, previous_height, will_move_up, current_height,
                   firstIteration, final_height, listener, pressureApplied,
                   movesWritten, guard, ioVars, stopVars>>
    /\ UNCHANGED decodeVars

\* The desk's own safety feature: it meets an obstacle and backs off one step
\* against its command, and notifies its new height.
DeskObstacle ==
    /\ motion \in {"up", "down"}
    /\ LET next == IF motion = "up" THEN physHeight - GridStep
                   ELSE physHeight + GridStep
       IN  /\ next \in RawPositions
           /\ physHeight' = next
           /\ lastNotified' = IF InMove THEN Notified(next) ELSE lastNotified
           /\ desk_height' = ListenerStore(Notified(next))
    /\ UNCHANGED <<pc, locatorVars, constructVars, motion, call, result,
                   target, previous_height, will_move_up, current_height,
                   firstIteration, final_height, listener, pressureApplied,
                   movesWritten, guard, ioVars, stopVars>>
    /\ UNCHANGED decodeVars

\* The interval of one move command runs out (desk.rs:99-100, 242-243).
DeskIdle ==
    /\ motion \in {"up", "down"}
    /\ motion' = "stopped"
    /\ UNCHANGED <<pc, locatorVars, constructVars, physHeight, call, result,
                   moveVars, lastNotified, ioVars, stopVars>>
    /\ UNCHANGED decodeVars

DeskSteps ==
    \/ DeskTick
    \/ DeskObstacle
    \/ DeskIdle


\* ------------------------------------------------------- desk.rs: stop

\* A public call starts: what the model records about one call is reset.
StartCall(name) ==
    /\ call' = name
    /\ reads' = 0
    /\ wire' = {}
    /\ lastCommand' = <<>>
    /\ ioFailed' = FALSE
    /\ lastNotified' = NoHeight

\* desk.rs:105-111, stop() up to its join: both lookups are .unwrap()ed, a
\* panic when the map lacks one of them; then both writes are pending.
CallStop(site) ==
    IF {UUID_COMMAND, UUID_REFERENCE_INPUT} \subseteq characteristics_map
    THEN /\ pc' = "stop_join"
         /\ stopSite' = site
         /\ cmdWrite' = "pending"
         /\ refWrite' = "pending"
         /\ stopResult' = None
    ELSE /\ pc' = "panicked"
         /\ UNCHANGED stopVars

\* A client calls stop() on the Desk.
ApiStop ==
    /\ pc = "ready"
    /\ StartCall("stop")
    /\ result' = None
    /\ CallStop("api")
    /\ UNCHANGED <<locatorVars, constructVars, deskVars, moveVars>>
    /\ UNCHANGED decodeVars

\* desk.rs:116, the first future of the join: the stop opcode to the command
\* characteristic.  The desk stops when the write reaches it.
StopWriteCommand ==
    /\ pc = "stop_join"
    /\ cmdWrite = "pending"
    /\ wire' = wire \cup {<<UUID_COMMAND, COMMAND_STOP>>}
    /\ lastCommand' = COMMAND_STOP
    /\ \E ok \in BOOLEAN :
           /\ cmdWrite' = IF ok THEN "ok" ELSE "err"
           /\ ioFailed' = (ioFailed \/ ~ok)
           /\ motion' = IF ok THEN "stopped" ELSE motion
    /\ UNCHANGED <<pc, locatorVars, constructVars, physHeight, call, result,
                   moveVars, lastNotified, reads, stopSite, refWrite,
                   stopResult>>
    /\ UNCHANGED decodeVars

\* desk.rs:117, the second future of the join: the reference input reset.
StopWriteReference ==
    /\ pc = "stop_join"
    /\ refWrite = "pending"
    /\ wire' = wire \cup {<<UUID_REFERENCE_INPUT, COMMAND_REF_INPUT>>}
    /\ \E ok \in BOOLEAN :
           /\ refWrite' = IF ok THEN "ok" ELSE "err"
           /\ ioFailed' = (ioFailed \/ ~ok)
    /\ UNCHANGED <<pc, locatorVars, constructVars, deskVars, call, result,
                   moveVars, lastNotified, reads, lastCommand, stopSite,
                   cmdWrite, stopResult>>
    /\ UNCHANGED decodeVars

\* A join that ends with the first failure, as try_join! does.
StopJoinDone_ShortCircuit ==
    \/ cmdWrite = "err"
    \/ refWrite = "err"
    \/ (cmdWrite = "ok" /\ refWrite = "ok")

\* desk.rs:115-118, tokio::join!: the join is over when both futures are.
StopJoinDone == cmdWrite \in {"ok", "err"} /\ refWrite \in {"ok", "err"}

\* desk.rs:115 and 120: `let (_, _) =` drops both results; stop returns this.
StopValue(cmd, ref) == "Ok"

\* desk.rs:115-120: the join ends and stop() returns.
StopReturn ==
    /\ pc = "stop_join"
    /\ StopJoinDone
    /\ stopResult' = StopValue(cmdWrite, refWrite)
    /\ pc' = "stop_returned"
    /\ UNCHANGED <<locatorVars, constructVars, deskVars, call, result,
                   moveVars, lastNotified, ioVars, stopSite, cmdWrite,
                   refWrite>>
    /\ UNCHANGED decodeVars

\* ----------------------------------------------- desk.rs: move_to_target

\* The bounds check with >= and <= for > and <.
ValidateBounds_Inclusive(t) ==
    IF t >= MAX_HEIGHT THEN "TargetHeightTooHigh"
    ELSE IF t <= MIN_HEIGHT THEN "TargetHeightTooLow"
    ELSE "Ok"

\* desk.rs:145-151
ValidateBounds(t) ==
    IF t > MAX_HEIGHT THEN "TargetHeightTooHigh"
    ELSE IF t < MIN_HEIGHT THEN "TargetHeightTooLow"
    ELSE "Ok"

\* desk.rs:144-151: a client calls move_to_target(t).
ApiMoveToTarget ==
    /\ pc = "ready"
    /\ StartCall("move_to_target")
    /\ \E t \in Targets :
           /\ target' = t
           /\ IF ValidateBounds(t) = "Ok"
              THEN /\ pc' = "mtt_get_height"
                   /\ result' = None
              ELSE /\ pc' = "ready"
                   /\ result' = ValidateBounds(t)
    /\ previous_height' = NoHeight
    /\ will_move_up' = FALSE
    /\ desk_height' = NoHeight
    /\ current_height' = NoHeight
    /\ firstIteration' = TRUE
    /\ final_height' = NoHeight
    /\ listener' = None
    /\ pressureApplied' = FALSE
    /\ movesWritten' = 0
    /\ guard' = None
    /\ stopSite' = None
    /\ cmdWrite' = "idle"
    /\ refWrite' = "idle"
    /\ stopResult' = None
    /\ UNCHANGED <<locatorVars, constructVars, deskVars>>
    /\ UNCHANGED decodeVars


\* desk.rs:153-163 with get_height (90-95): the initial read.  An Err is
\* returned by ?; an Ok seeds previous_height, will_move_up and the shared
\* value.
MttGetHeight ==
    /\ pc = "mtt_get_height"
    /\ reads' = reads + 1
    /\ IF UUID_HEIGHT \notin characteristics_map
       THEN /\ pc' = "panicked"
            /\ UNCHANGED <<result, ioFailed, previous_height, will_move_up,
                           desk_height>>
       ELSE \E ok \in BOOLEAN :
                IF ok
                THEN LET height == bytes_to_meters(EncodeRaw(physHeight))
                     IN  /\ previous_height' = height
                         /\ will_move_up' = (target > height)
                         /\ desk_height' = height
                         /\ pc' = "mtt_monitor"
                         /\ UNCHANGED <<result, ioFailed>>
                ELSE /\ result' = "BluetoothError"
                     /\ ioFailed' = TRUE
                     /\ pc' = "ready"
                     /\ UNCHANGED <<previous_height, will_move_up,
                                    desk_height>>
    /\ UNCHANGED <<locatorVars, constructVars, deskVars, call, target,
                   current_height, firstIteration, final_height, listener,
                   pressureApplied, movesWritten, guard, lastNotified, wire,
                   lastCommand, stopVars>>
    /\ UNCHANGED decodeVars

\* desk.rs:165-167
MttMonitor ==
    /\ pc = "mtt_monitor"
    /\ listener' = MonitorStarted
    /\ firstIteration' = TRUE
    /\ pc' = "mtt_loop"
    /\ UNCHANGED <<locatorVars, constructVars, deskVars, call, result, target,
                   previous_height, will_move_up, desk_height, current_height,
                   final_height, pressureApplied, movesWritten, guard,
                   lastNotified, ioVars, stopVars>>
    /\ UNCHANGED decodeVars

\* desk.rs:194-196
SafetyKickedIn(current, previous, up, difference_abs) ==
    /\ \/ (current < previous /\ up)
       \/ (current > previous /\ ~up)
    /\ difference_abs > 100

\* desk.rs:177 and 204: difference.abs() < max(speed / 2, 0.01) with
\* speed = difference_abs / elapsed_milliseconds * 100.  In f64 a division
\* by 0 ms gives inf (or NaN for 0/0, which max drops for 0.01), so the test
\* holds for every difference; otherwise difference_abs < speed / 2 is
\* 2 * ms * difference_abs < 100 * difference_abs.
StoppingPressure(difference_abs, ms) ==
    IF ms = 0 THEN TRUE
    ELSE \/ 2 * ms * difference_abs < 100 * difference_abs
         \/ difference_abs < 100

\* The tolerance with 0.03 for 0.003.
WithinTolerance_Loose(difference_abs) == difference_abs <= 300

\* desk.rs:215
WithinTolerance(difference_abs) == difference_abs <= 30

\* The guard of line 170 kept in a binding that lives to the end of the
\* iteration.
GuardAtAwait_Held == "controller"

\* desk.rs:170, 218 and 230: `*desk_height.lock().unwrap()` locks the mutex
\* and copies the f32 out; the guard is a temporary of that statement and is
\* dropped at its end, so at the next await nobody holds it.
GuardAtAwait == None

\* desk.rs:170-215, one iteration up to its first await: the sample of the
\* shared value (the lock is taken when it is free), the safety check, and
\* the stop of line 207 or 216 or neither.
MttSample ==
    /\ pc = "mtt_loop"
    /\ guard = None
    /\ guard' = GuardAtAwait
    /\ current_height' = desk_height
    /\ movesWritten' = 0
    /\ \E ms \in (IF firstIteration THEN ElapsedFirst ELSE ElapsedLater) :
           LET difference == target - desk_height
               difference_abs == Abs(difference)
           IN  IF SafetyKickedIn(desk_height, previous_height, will_move_up,
                                 difference_abs)
               THEN /\ result' = "DeskMoveSafetyKickedIn"
                    /\ pc' = "ready"
                    /\ pressureApplied' = FALSE
                    /\ UNCHANGED stopVars
               ELSE /\ UNCHANGED result
                    /\ pressureApplied' = StoppingPressure(difference_abs, ms)
                    /\ IF StoppingPressure(difference_abs, ms)
                       THEN CallStop("pressure")
                       ELSE IF WithinTolerance(difference_abs)
                       THEN CallStop("arrival")
                       ELSE /\ pc' = "mtt_move"
                            /\ UNCHANGED stopVars
    /\ UNCHANGED <<locatorVars, constructVars, deskVars, call, target,
                   previous_height, will_move_up, desk_height, firstIteration,
                   final_height, listener, lastNotified, ioVars>>
    /\ UNCHANGED decodeVars

\* The locals of a stop() call end with it.
StopEnds ==
    /\ stopSite' = None
    /\ cmdWrite' = "idle"
    /\ refWrite' = "idle"
    /\ stopResult' = None

\* desk.rs:207-222, after a stop() has returned: `?` on its result, then the
\* arrival check after the stop of line 207, the final read and Ok(()) after
\* the stop of line 216; a stop() a client called returns to the client.
AfterStop ==
    /\ pc = "stop_returned"
    /\ IF stopResult # "Ok"
       THEN /\ result' = "BluetoothError"
            /\ pc' = "ready"
            /\ StopEnds
            /\ UNCHANGED final_height
       ELSE CASE stopSite = "api" ->
                     /\ result' = "Ok"
                     /\ pc' = "ready"
                     /\ StopEnds
                     /\ UNCHANGED final_height
              [] stopSite = "pressure" ->
                     /\ UNCHANGED <<result, final_height>>
                     /\ IF WithinTolerance(Abs(target - current_height))
                        THEN CallStop("arrival")
                        ELSE /\ pc' = "mtt_move"
                             /\ StopEnds
              [] OTHER ->
                     /\ guard = None
                     /\ final_height' = desk_height
                     /\ result' = "Ok"
                     /\ pc' = "ready"
                     /\ StopEnds
    /\ UNCHANGED <<locatorVars, constructVars, deskVars, call, target,
                   previous_height, will_move_up, desk_height, current_height,
                   firstIteration, listener, pressureApplied, movesWritten,
                   guard, lastNotified, ioVars>>
    /\ UNCHANGED decodeVars

\* The two opcodes of move_direction exchanged.
MoveOpcode_Swapped(direction) ==
    IF direction = "Up" THEN COMMAND_DOWN ELSE COMMAND_UP

\* desk.rs:259-263
MoveOpcode(direction) == IF direction = "Up" THEN COMMAND_UP ELSE COMMAND_DOWN

\* desk.rs:224-231 with move_direction (256-272): the move command of the
\* iteration, an Err returned by ?, then previous_height from the shared value
\* (the lock is taken when it is free).
MttMove ==
    /\ pc = "mtt_move"
    /\ LET difference == target - current_height
       IN  IF difference = 0
           THEN /\ guard = None
                /\ guard' = GuardAtAwait
                /\ previous_height' = desk_height
                /\ pc' = "mtt_sleep"
                /\ UNCHANGED <<result, motion, ioVars, movesWritten>>
           ELSE IF UUID_COMMAND \notin characteristics_map
           THEN /\ pc' = "panicked"
                /\ UNCHANGED <<result, motion, ioVars, previous_height,
                               movesWritten, guard>>
           ELSE LET direction == IF difference > 0 THEN "Up" ELSE "Down"
                IN  /\ wire' = wire \cup {<<UUID_COMMAND, MoveOpcode(direction)>>}
                    /\ lastCommand' = MoveOpcode(direction)
                    /\ movesWritten' = movesWritten + 1
                    /\ UNCHANGED reads
                    /\ \E ok \in BOOLEAN :
                           IF ok
                           THEN /\ guard = None
                                /\ guard' = GuardAtAwait
                                /\ motion' = IF direction = "Up" THEN "up"
                                             ELSE "down"
                                /\ previous_height' = desk_height
                                /\ pc' = "mtt_sleep"
                                /\ UNCHANGED <<result, ioFailed>>
                           ELSE /\ result' = "BluetoothError"
                                /\ ioFailed' = TRUE
                                /\ pc' = "ready"
                                /\ UNCHANGED <<motion, previous_height,
                                               guard>>
    /\ UNCHANGED <<locatorVars, constructVars, physHeight, call, target,
                   will_move_up, desk_height, current_height, firstIteration,
                   final_height, listener, pressureApplied, lastNotified,
                   stopVars>>
    /\ UNCHANGED decodeVars

\* desk.rs:231-237: the 50 ms sleep, then the next iteration, which has
\* called no stop() and written no move command yet.
MttSleep ==
    /\ pc = "mtt_sleep"
    /\ firstIteration' = FALSE
    /\ pressureApplied' = FALSE
    /\ movesWritten' = 0
    /\ pc' = "mtt_loop"
    /\ UNCHANGED <<locatorVars, constructVars, deskVars, call, result, target,
                   previous_height, will_move_up, desk_height, current_height,
                   final_height, listener, guard, lastNotified, ioVars,
                   stopVars>>
    /\ UNCHANGED decodeVars

DeskCalls ==
    \/ ApiStop
    \/ StopWriteCommand
    \/ StopWriteReference
    \/ StopReturn
    \/ AfterStop
    \/ ApiMoveToTarget
    \/ MttGetHeight
    \/ MttMonitor
    \/ MttSample
    \/ MttMove
    \/ MttSleep

\* ------------------------------------------------------ the specification

Next ==
    \/ Locate
    \/ Construct
    \/ DeskSteps
    \/ DeskCalls

Spec == Init /\ [][Next]_vars

\* ------------------------------------------------- bytes_to_meters alone

\* Every pair of bytes a read or a notification can carry, before any call.
InitDecode ==
    /\ pc = "fda_start"
    /\ connect = FALSE
    /\ found = None
    /\ attempt = 0
    /\ connectCalls = 0
    /\ connected = FALSE
    /\ discoverCalls = 0
    /\ locateResult = None
    /\ deviceChars = AllCharacteristics
    /\ discovered = {}
    /\ characteristics_map = {}
    /\ constructResult = None
    /\ physHeight = 0
    /\ motion = "stopped"
    /\ call = None
    /\ result = None
    /\ target = NoHeight
    /\ previous_height = NoHeight
    /\ will_move_up = FALSE
    /\ desk_height = NoHeight
    /\ current_height = NoHeight
    /\ firstIteration = TRUE
    /\ final_height = NoHeight
    /\ listener = None
    /\ pressureApplied = FALSE
    /\ movesWritten = 0
    /\ guard = None
    /\ lastNotified = NoHeight
    /\ reads = 0
    /\ wire = {}
    /\ lastCommand = <<>>
    /\ ioFailed = FALSE
    /\ stopSite = None
    /\ cmdWrite = "idle"
    /\ refWrite = "idle"
    /\ stopResult = None
    /\ sample \in Byte \X Byte
    /\ decoded = NoHeight

\* desk.rs:356-362: bytes_to_meters applied to the sample.
DecodeSample ==
    /\ decoded = NoHeight
    /\ decoded' = bytes_to_meters_f32(sample)
    /\ UNCHANGED <<pc, locatorVars, constructVars, deskVars, call, result,
                   moveVars, lastNotified, ioVars, stopVars, sample>>

NextDecode == DecodeSample

SpecDecode == InitDecode /\ [][NextDecode]_vars


\* ================================================================= claims

MoveReturned == call = "move_to_target" /\ pc = "ready"

\* C1: move_to_target(t) with t > MAX_HEIGHT returns TargetHeightTooHigh(t)
\* and with t < MIN_HEIGHT returns TargetHeightTooLow(t), in both cases having
\* made no transport read, no transport write and no listener; a target equal
\* to MIN_HEIGHT or MAX_HEIGHT is not rejected: its call never returns without
\* having gone on to the initial read.
C1_BoundsRejectedBeforeAnyIo ==
    call = "move_to_target" =>
        /\ target > MAX_HEIGHT =>
               /\ MoveReturned
               /\ result = "TargetHeightTooHigh"
               /\ reads = 0 /\ wire = {} /\ listener = None
        /\ target < MIN_HEIGHT =>
               /\ MoveReturned
               /\ result = "TargetHeightTooLow"
               /\ reads = 0 /\ wire = {} /\ listener = None
        /\ target \in {MIN_HEIGHT, MAX_HEIGHT} =>
               /\ result \notin {"TargetHeightTooHigh", "TargetHeightTooLow"}
               /\ MoveReturned => reads > 0

\* A call with a target above MAX_HEIGHT has returned its error.
C1_Witness ==
    /\ MoveReturned
    /\ target = MAX_HEIGHT + 1
    /\ result = "TargetHeightTooHigh"


\* The abort of desk.rs:194-200 needs a sample that differs from
\* previous_height.  Both are copies of the shared value, which only a running
\* listener changes, so no call returns DeskMoveSafetyKickedIn.
SafetyAbortNeverReturned == result # "DeskMoveSafetyKickedIn"

\* The desk follows its commands and meets no obstacle.
NextMonotone ==
    \/ Locate
    \/ Construct
    \/ DeskTick
    \/ DeskIdle
    \/ DeskCalls

\* The steps of the client task inside a call: the runtime keeps polling the
\* task, and every transport operation and sleep it awaits completes.
TaskSteps ==
    \/ StopWriteCommand
    \/ StopWriteReference
    \/ StopReturn
    \/ AfterStop
    \/ MttGetHeight
    \/ MttMonitor
    \/ MttSample
    \/ MttMove
    \/ MttSleep

\* The desk never reverses, the task keeps running, and a desk that is
\* commanded again and again keeps moving.
SpecMonotone ==
    /\ Init
    /\ [][NextMonotone]_vars
    /\ WF_vars(TaskSteps)
    /\ SF_vars(DeskTick)

\* The targets the desk can reach inside the modelled window.
TargetInWindow ==
    /\ target >= MIN_HEIGHT
    /\ target <= MIN_HEIGHT + GridStep * MaxPos

\* C3: for an in-range target, with a desk that follows the move commands
\* towards the target and never reverses and with no transport failure, a
\* move_to_target call that has entered its loop eventually returns Ok, and the
\* last command it wrote is a stop.
C3_Original ==
    (/\ pc = "mtt_loop"
     /\ TargetInWindow
     /\ AllCharacteristics \subseteq characteristics_map)
        ~> \/ (MoveReturned /\ result = "Ok" /\ lastCommand = COMMAND_STOP)
           \/ ioFailed

\* C4: the call's listener stores every notification in the shared value, so
\* the height a loop iteration samples (the step that leaves "mtt_loop") is
\* the height of the most recent notification the desk has sent during the
\* call, or the initial read when it has sent none.
C4_Original ==
    [][(pc = "mtt_loop" /\ pc' # "mtt_loop") =>
           current_height' = IF lastNotified = NoHeight THEN previous_height
                             ELSE lastNotified]_vars


\* C5: with connect = true, once all RETRY_COUNT connection attempts have
\* failed (and the delay after the last one is over) find_desk_adapter has
\* returned an error: it is not in service discovery, has called none, and has
\* not returned the peripheral.
C5_Original ==
    (/\ connect
     /\ connectCalls = RETRY_COUNT
     /\ ~connected
     /\ pc # "fda_backoff")
        => /\ pc = "fda_returned"
           /\ locateResult = "Err"
           /\ discoverCalls = 0

\* C6: a stop() that has returned has attempted both writes, the stop opcode
\* to the command characteristic and the reset to the reference input, and
\* both have completed or failed, whatever the outcome of the other one.
C6_StopAttemptsBothWrites ==
    pc = "stop_returned" =>
        /\ cmdWrite \in {"ok", "err"}
        /\ refWrite \in {"ok", "err"}
        /\ lastCommand = COMMAND_STOP
        /\ <<UUID_COMMAND, COMMAND_STOP>> \in wire
        /\ <<UUID_REFERENCE_INPUT, COMMAND_REF_INPUT>> \in wire

\* A stop() has returned whose write to the command characteristic failed and
\* whose write to the reference input was made all the same.
C6_Witness ==
    /\ pc = "stop_returned"
    /\ cmdWrite = "err"
    /\ refWrite = "ok"

\* C7: stop() returns success exactly when both of its writes succeeded; with
\* a failed write it returns an error.
C7_Original ==
    pc = "stop_returned" =>
        (stopResult = "Ok" <=> (cmdWrite = "ok" /\ refWrite = "ok"))

\* C8: once a transport operation of a move_to_target call has failed, the
\* call has returned a transport error: past the stop() in which a write
\* failed there is no move command, no later iteration and no success.
C8_Original ==
    (/\ call = "move_to_target"
     /\ ioFailed
     /\ pc \notin {"stop_join", "stop_returned"})
        => /\ pc = "ready"
           /\ result = "BluetoothError"

\* C9: a Desk that from_peripheral constructed has all three characteristics
\* in its map, and no lookup of a later call fails (a failed lookup is the
\* panic of an unwrap on None).
C9_Original ==
    constructResult = "Ok" =>
        /\ AllCharacteristics \subseteq characteristics_map
        /\ pc # "panicked"

\* C10: when move_to_target has returned success, the height it read from the
\* shared value after the final stop is within 3 mm of the target.
C10_FinalHeightWithinTolerance ==
    (MoveReturned /\ result = "Ok") =>
        /\ final_height # NoHeight
        /\ Abs(target - final_height) <= 30

\* A call has returned success during which the desk sent a notification.
C10_Witness ==
    /\ MoveReturned
    /\ result = "Ok"
    /\ lastNotified # NoHeight


\* The u16 a sample carries, little-endian.
RawOf(bytes) == bytes[1] + 256 * bytes[2]

\* C11: for every pair of bytes (b0, b1) bytes_to_meters returns, to the
\* nearest 1/10000 m, exactly 6200 + b0 + 256 * b1 (the height the model's
\* integer decoder returns), and the f32 it returns is strictly below the f32
\* it returns for the next raw value: the decoder is strictly increasing in
\* raw = b0 + 256 * b1 and so injective.
C11_DecodeExactAndIncreasing ==
    decoded # NoHeight =>
        /\ TenThousandths(decoded) = 6200 + sample[1] + 256 * sample[2]
        /\ bytes_to_meters(sample) = TenThousandths(decoded)
        /\ RawOf(sample) < 65535 =>
               decoded < bytes_to_meters_f32(EncodeRaw(RawOf(sample) + 1))

\* A sample with both bytes set and different has been decoded.
C11_Witness ==
    /\ decoded # NoHeight
    /\ sample = <<52, 18>>

\* C12: when no discovered peripheral has the requested address after the
\* settle window, find_desk_adapter has returned an error to its caller (the
\* task has not panicked and is not scanning again) and has made no
\* connection attempt.
C12_Original ==
    found = "absent" =>
        /\ pc = "fda_returned"
        /\ locateResult = "Err"
        /\ connectCalls = 0

\* Every sample of the loop equals previous_height: both are copies of the
\* shared value, which nothing changes while no listener runs.  So no
\* iteration sees the desk move, with or against the intended direction.
SampleEqualsPrevious ==
    (call = "move_to_target" /\ current_height # NoHeight)
        => current_height = previous_height

\* C14: in an iteration of move_to_target that has called the anticipatory
\* stop of line 207 with the sampled height not within 3 mm of the target,
\* and with no transport failure, the call has not returned and the iteration
\* has written no move command.
C14_Original ==
    (/\ call = "move_to_target"
     /\ pressureApplied
     /\ ~ioFailed
     /\ Abs(target - current_height) > 30)
        => /\ pc # "ready"
           /\ movesWritten = 0

\* C15: an iteration of move_to_target writes at most one move command, and
\* when it has written one the height it sampled is more than 3 mm from the
\* target and the command is Up (0x47, 0x00) when the sample is below the
\* target and Down (0x46, 0x00) when it is above.
C15_MoveCommandFollowsSign ==
    call = "move_to_target" =>
        /\ movesWritten <= 1
        /\ movesWritten = 1 =>
               /\ Abs(target - current_height) > 30
               /\ current_height < target => lastCommand = <<71, 0>>
               /\ current_height > target => lastCommand = <<70, 0>>

\* An iteration that sampled a height above the target has written Down.
C15_Witness ==
    /\ call = "move_to_target"
    /\ movesWritten = 1
    /\ current_height > target
    /\ lastCommand = COMMAND_DOWN

\* C16: at every await of the client task nobody holds the guard of the
\* shared value's mutex, and the shared value changes only when the call
\* initialises it (the reset at the start of a call and the Mutex::new of
\* line 163) or when a running listener stores a notification: the
\* controller loop only reads it.
C16_MutexDiscipline ==
    /\ [](guard = None)
    /\ [][desk_height' # desk_height =>
              \/ pc \in {"ready", "mtt_get_height"}
              \/ listener = "running"]_vars

\* The controller has sampled the shared value and is at the sleep of line
\* 237, having read it again at line 230.
C16_Witness ==
    /\ call = "move_to_target"
    /\ pc = "mtt_sleep"
    /\ current_height = desk_height
    /\ previous_height = desk_height
    /\ guard = None

\* No call has a spawned listener: the future of line 167 is never polled.
ListenerNeverSpawned == listener # "running"

\* The task keeps running inside a call, whatever the desk does.
SpecFair ==
    /\ Init
    /\ [][Next]_vars
    /\ WF_vars(TaskSteps)

\* A call is at the head of its loop, more than 3 mm from the target, on a
\* Desk that has all its characteristics.
InLoopFar ==
    /\ call = "move_to_target"
    /\ pc = "mtt_loop"
    /\ Abs(target - desk_height) > 30
    /\ AllCharacteristics \subseteq characteristics_map

\* C18: move_to_target returns only for a target out of range, for a sample
\* within 3 mm of the target (Ok), for a safety reversal, or for a transport
\* failure; and every iteration that starts more than 3 mm from the target
\* goes on to write a move command and to the sleep before the next
\* iteration, unless a transport operation fails.  So while the sampled
\* height stays away from the target the loop runs on, one move command an
\* iteration, with no bound.
C18_SeekLoopUnbounded ==
    /\ [](MoveReturned =>
            \/ result \in {"TargetHeightTooHigh", "TargetHeightTooLow"}
            \/ result = "Ok" /\ Abs(target - current_height) <= 30
            \/ result = "DeskMoveSafetyKickedIn"
            \/ result = "BluetoothError" /\ ioFailed)
    /\ InLoopFar ~> \/ (pc = "mtt_sleep" /\ movesWritten = 1)
                    \/ ioFailed

\* A later iteration of a call has written its move command although the
\* desk has reached the target and said so; nothing has failed.
C18_Witness ==
    /\ call = "move_to_target"
    /\ pc = "mtt_sleep"
    /\ ~firstIteration
    /\ movesWritten = 1
    /\ ~ioFailed
    /\ lastNotified = target

\* C19: find_desk_adapter with connect = true makes at most RETRY_COUNT
\* connection attempts and at least one before it leaves the loop, makes none
\* after a successful one, has completed the delay after every failed
\* attempt before it makes the next, and calls discover_services at most
\* once, after the attempts have ended; with connect = false it makes no
\* attempt and no discovery.
C19_ConnectAttempts ==
    /\ connectCalls <= RETRY_COUNT
    /\ discoverCalls <= 1
    /\ ~connect => (connectCalls = 0 /\ discoverCalls = 0 /\ ~connected)
    /\ pc = "fda_connect" => (~connected /\ connectCalls = attempt)
    /\ pc = "fda_backoff" => (~connected /\ connectCalls = attempt + 1)
    /\ (pc = "fda_discover" \/ discoverCalls = 1) =>
           /\ connect
           /\ connectCalls >= 1
           /\ connected \/ (connectCalls = RETRY_COUNT /\ attempt = RETRY_COUNT)
    /\ discoverCalls = 1 => pc = "fda_returned"

\* find_desk_adapter has returned after a failed attempt, its delay, a
\* successful second attempt and one service discovery.
C19_Witness ==
    /\ pc = "fda_returned"
    /\ connect
    /\ connected
    /\ connectCalls = 2
    /\ attempt = 1
    /\ discoverCalls = 1

==========================================================================
